---- MODULE Spec2Model ----
(***************************************************************************)
(* Model of WGIBDscan: the relatedness scan that picks the reference pair  *)
(* (ersa_search/ersa.py), the whole-genome segment scan with its worker    *)
(* pool (search_ibd_files/search_segments.py) and the result writer        *)
(* (search_ibd_files/writer.py).                                           *)
(*                                                                         *)
(* Python dicts keep insertion order, and max() and the writer iterate in  *)
(* that order, so a dict is modelled as a sequence of <<key, value>>       *)
(* entries.  Strings that the code compares or searches (scores, file      *)
(* names) are sequences of characters.                                     *)
(*                                                                         *)
(* Four specifications share the variables; each leaves the variables of   *)
(* the others at rest:                                                     *)
(*   Spec         search_segments: programs, pairs, pools, search space    *)
(*   SpecFile     one worker's _search_file chunk by chunk, then write     *)
(*   SpecErsa     the pool of _get_relatedness workers and the selection   *)
(*   SpecOverlap  the three-clause overlap test on two segments            *)
(***************************************************************************)
EXTENDS Integers, Sequences, FiniteSets, TLC

VARIABLES
    \* segment-overlap test of _search_file applied to one found/reference pair
    ov_found, ov_ref, ov_res, ov_pc,
    \* one worker's _search_file on one file, then write on its result
    fl_file, fl_pair, fl_space, fl_obj, fl_chunk, fl_dict, fl_out, fl_pc,
    \* determine_minimal_relatedness: the pool over the relatedness files
    \* and the choice of the reference pair
    er_files, er_workers, er_task, er_line, er_dict, er_result, er_pc,
    \* search_segments: the inputs, the loop over the programs and pairs, the
    \* pool of the scan in progress and the results
    ibd_programs, missing_dirs, dir_files, grids, distant_pairs, cpu_count,
    prog_i, scan_kind, cur_pair, grid_combinations, search_space,
    pool_files, pool_space, pool_workers, task, return_dict,
    output_dict, out_file, pc

vars == <<ov_found, ov_ref, ov_res, ov_pc,
          fl_file, fl_pair, fl_space, fl_obj, fl_chunk, fl_dict, fl_out, fl_pc,
          er_files, er_workers, er_task, er_line, er_dict, er_result, er_pc,
          ibd_programs, missing_dirs, dir_files, grids, distant_pairs, cpu_count,
          prog_i, scan_kind, cur_pair, grid_combinations, search_space,
          pool_files, pool_space, pool_workers, task, return_dict,
          output_dict, out_file, pc>>

ovVars == <<ov_found, ov_ref, ov_res, ov_pc>>
flVars == <<fl_file, fl_pair, fl_space, fl_obj, fl_chunk, fl_dict, fl_out, fl_pc>>
erVars == <<er_files, er_workers, er_task, er_line, er_dict, er_result, er_pc>>
inVars == <<ibd_programs, missing_dirs, dir_files, grids, distant_pairs, cpu_count>>
loopVars == <<prog_i, scan_kind, cur_pair, grid_combinations, search_space>>
poolVars == <<pool_files, pool_space, pool_workers, task, return_dict>>
ssVars == <<inVars, loopVars, poolVars, output_dict, out_file, pc>>

\* ------------------------------------------------------------------ bounds
\* largest base-pair coordinate of a segment in the overlap test
MaxCoord == 4
\* rows per chunk of a segment file (pd.read_csv chunksize, scaled down)
ChunkRows == 1
\* most rows in one segment file
MaxRows == 2
\* most reference segments of one chromosome in a search space
MaxRefs == 2
\* most lines in the relatedness files together
MaxErsaLines == 3

\* ------------------------------------------------------------ Python dicts
\* dict.get(key, default)
DictGet(d, k, default) ==
    IF \E i \in 1..Len(d) : d[i][1] = k
    THEN d[CHOOSE i \in 1..Len(d) : d[i][1] = k][2]
    ELSE default

\* d[key] = value: an existing key keeps its place, a new key goes last
DictSet(d, k, v) ==
    IF \E i \in 1..Len(d) : d[i][1] = k
    THEN [i \in 1..Len(d) |-> IF d[i][1] = k THEN <<k, v>> ELSE d[i]]
    ELSE Append(d, <<k, v>>)

DictKeys(d) == {d[i][1] : i \in 1..Len(d)}

\* keys are unique in a Python dict
IsDict(d) == \A i, j \in 1..Len(d) : d[i][1] = d[j][1] => i = j

\* ------------------------------------------------------------ overlap test
\* A mutant of the test: the first clause dropped
IntersectsNoLeftClause(fs, fe, start, end) ==
    \/ (fs >= start /\ fe <= end)
    \/ (fs <= end /\ fe >= end)

\* The row filter of _search_file for one row (fs, fe) of the pair and one
\* reference segment (start, end) of the search space
Intersects(fs, fe, start, end) ==
    \/ (fs <= start /\ fe > start)
    \/ (fs >= start /\ fe <= end)
    \/ (fs <= end /\ fe >= end)

\* loc_filtered_chunk: the rows of filter_chunk that pass the test
LocFilteredChunk(filter_chunk, start, end) ==
    SelectSeq(filter_chunk, LAMBDA seg : Intersects(seg[1], seg[2], start, end))

\* ------------------------------------------------------------------ strings
\* a string is a sequence of characters
Digits == {"0", "1", "2", "3", "4", "5", "6", "7", "8", "9"}

\* Python's `sub in s`
Contains(s, sub) ==
    \E i \in 0..(Len(s) - Len(sub)) : \A k \in 1..Len(sub) : s[i + k] = sub[k]

\* ------------------------------------------------------------ _search_file
\* rows of a segment file, in file order.  cols = "extra" is a row with more
\* tab-separated fields than the first line of the file
Row(id1, id2, seg) == [id1 |-> id1, id2 |-> id2, start |-> seg[1], end |-> seg[2], cols |-> "ok"]
ExtraRow(id1, id2, seg) == [id1 |-> id1, id2 |-> id2, start |-> seg[1], end |-> seg[2], cols |-> "extra"]

\* Pair_Segments(pair[0], pair[1]): both collections start empty
NewPairSegments(pair) ==
    [pair1 |-> pair[1], pair2 |-> pair[2], segments |-> <<>>, overlap_others |-> <<>>]

\* pd.read_csv(..., chunksize=...) hands the rows out chunksize at a time
RECURSIVE Chunks(_)
Chunks(rows) ==
    IF Len(rows) = 0 THEN <<>>
    ELSE IF Len(rows) <= ChunkRows THEN <<rows>>
    ELSE <<SubSeq(rows, 1, ChunkRows)>> \o Chunks(SubSeq(rows, ChunkRows + 1, Len(rows)))

\* read_csv(header=None) takes the column count from the first line; a later
\* line with more fields raises ParserError when its chunk is read, and an
\* empty file raises EmptyDataError
ChunkRaises(rows, lo, hi) ==
    IF Len(rows) = 0 THEN TRUE
    ELSE rows[1].cols = "ok" /\ \E i \in lo..hi : i <= Len(rows) /\ rows[i].cols = "extra"

\* filter_chunk: the rows of the pair, in either column order
FilterChunk(chunk, pair_obj) ==
    SelectSeq(chunk, LAMBDA r :
        \/ (r.id1 = pair_obj.pair1 /\ r.id2 = pair_obj.pair2)
        \/ (r.id1 = pair_obj.pair2 /\ r.id2 = pair_obj.pair1))

\* list(zip(chunk[start], chunk[end]))
ZipStartEnd(chunk) == [i \in 1..Len(chunk) |-> <<chunk[i].start, chunk[i].end>>]

\* A mutant of the loop: a reference segment that has a flag, 0 or 1, is not
\* tested again
RECURSIVE SearchSpaceLoopAnyFlagCached(_, _, _, _)
SearchSpaceLoopAnyFlagCached(pair_obj, filter_chunk, search_space_list, i) ==
    IF i > Len(search_space_list) THEN pair_obj
    ELSE LET ref == search_space_list[i]
         IN IF ref \notin DictKeys(pair_obj.overlap_others)
            THEN LET loc_filtered_chunk ==
                         LocFilteredChunk(ZipStartEnd(filter_chunk), ref[1], ref[2])
                     flagged == [pair_obj EXCEPT
                         !.overlap_others =
                             DictSet(@, ref, IF loc_filtered_chunk = <<>> THEN 0 ELSE 1),
                         !.segments = @ \o loc_filtered_chunk]
                 IN SearchSpaceLoopAnyFlagCached(flagged, filter_chunk, search_space_list, i + 1)
            ELSE SearchSpaceLoopAnyFlagCached(pair_obj, filter_chunk, search_space_list, i + 1)

\* one pass of `for start, end in search_space_list` over the list from
\* position i on
RECURSIVE SearchSpaceLoop(_, _, _, _)
SearchSpaceLoop(pair_obj, filter_chunk, search_space_list, i) ==
    IF i > Len(search_space_list) THEN pair_obj
    ELSE LET ref == search_space_list[i]
         IN IF DictGet(pair_obj.overlap_others, ref, 0) = 0
            THEN LET loc_filtered_chunk ==
                         LocFilteredChunk(ZipStartEnd(filter_chunk), ref[1], ref[2])
                     flagged == [pair_obj EXCEPT
                         !.overlap_others =
                             DictSet(@, ref, IF loc_filtered_chunk = <<>> THEN 0 ELSE 1),
                         !.segments = @ \o loc_filtered_chunk]
                 IN SearchSpaceLoop(flagged, filter_chunk, search_space_list, i + 1)
            ELSE SearchSpaceLoop(pair_obj, filter_chunk, search_space_list, i + 1)

\* the body of `for chunk in pd.read_csv(...)` for one chunk.  use_space is
\* the truth value of `if search_space:`
SearchChunk(pair_obj, chunk, search_space_list, use_space) ==
    LET filter_chunk == FilterChunk(chunk, pair_obj)
    IN IF use_space
       THEN SearchSpaceLoop(pair_obj, filter_chunk, search_space_list, 1)
       ELSE [pair_obj EXCEPT !.segments = @ \o ZipStartEnd(filter_chunk)]

RECURSIVE SearchChunks(_, _, _, _, _)
SearchChunks(pair_obj, chunks, i, search_space_list, use_space) ==
    IF i > Len(chunks) THEN pair_obj
    ELSE SearchChunks(SearchChunk(pair_obj, chunks[i], search_space_list, use_space),
                      chunks, i + 1, search_space_list, use_space)

\* the Pair_Segments a worker builds from a whole file that parses
SearchFile(rows, pair, search_space_list, use_space) ==
    SearchChunks(NewPairSegments(pair), Chunks(rows), 1, search_space_list, use_space)

\* -------------------------------------------------------- find_search_space
\* A mutant: the filter looks at the overlap map instead of the segment list
FindSearchSpaceByOverlap(segments_dict) ==
    SelectSeq(segments_dict, LAMBDA e : Len(e[2].overlap_others) # 0)

\* find_search_space: the entries whose segment list is not empty
FindSearchSpace(segments_dict) ==
    SelectSeq(segments_dict, LAMBDA e : Len(e[2].segments) # 0)

\* ------------------------------------------------------------------- writer
RECURSIVE Flatten(_)
Flatten(seqs) == IF Len(seqs) = 0 THEN <<>> ELSE Head(seqs) \o Flatten(Tail(seqs))

\* _get_chr: "chr7" -> "07", "chr12" -> "12", anything else the integer 0
GetChr(chromosome_number) ==
    IF Len(chromosome_number) = 4
    THEN <<"0", chromosome_number[4]>>
    ELSE IF Len(chromosome_number) = 5
         THEN SubSeq(chromosome_number, 4, 5)
         ELSE <<"int 0">>

\* one line of the output file.  segment is <<start, end>>, or <<>> where the
\* code prints None None; overlapping_segment is <<chr, start, end>> (printed
\* chr:start-end), or <<>> where the code prints None
OutputRow(pair_1, pair_2, program, chr_num, segment, overlaps, overlapping_segment) ==
    [pair_1 |-> pair_1, pair_2 |-> pair_2, ibd_program |-> program,
     chromosome |-> chr_num, segment |-> segment,
     overlaps |-> overlaps, overlapping_segment |-> overlapping_segment]

\* _determine_overlap: the lines written for one partial_output_str
DetermineOverlap(overlap_dict, pair_1, pair_2, program, chr_num, segment) ==
    IF Len(overlap_dict) # 0
    THEN [i \in 1..Len(overlap_dict) |->
             OutputRow(pair_1, pair_2, program, chr_num, segment, overlap_dict[i][2],
                       <<chr_num, overlap_dict[i][1][1], overlap_dict[i][1][2]>>)]
    ELSE <<OutputRow(pair_1, pair_2, program, chr_num, segment, 0, <<>>)>>

\* the body of `for chromo, pair_object in filtered_chromo.items()`
WriteChromo(pair_1, pair_2, program, chromo, pair_object) ==
    LET chr_num == GetChr(chromo)
    IN IF Len(pair_object.segments) # 0
       THEN Flatten([i \in 1..Len(pair_object.segments) |->
                DetermineOverlap(pair_object.overlap_others, pair_1, pair_2, program,
                                 chr_num, pair_object.segments[i])])
       ELSE DetermineOverlap(pair_object.overlap_others, pair_1, pair_2, program,
                             chr_num, <<>>)

\* the body of `for pair_tuple, chromo_dict in pair_dict.items()`
WritePair(program, pair_tuple, chromo_dict) ==
    LET filtered_chromo == FindSearchSpace(chromo_dict)
    IN Flatten([i \in 1..Len(filtered_chromo) |->
           WriteChromo(pair_tuple[1], pair_tuple[2], program,
                       filtered_chromo[i][1], filtered_chromo[i][2])])

\* write: the data lines that follow the header line, in file order
Write(programs_dict) ==
    Flatten([p \in 1..Len(programs_dict) |->
        Flatten([q \in 1..Len(programs_dict[p][2]) |->
            WritePair(programs_dict[p][1], programs_dict[p][2][q][1],
                      programs_dict[p][2][q][2])])])

\* ------------------------------------------------- file names and filtering
ChrAt(s, i) == i + 2 <= Len(s) /\ s[i] = "c" /\ s[i + 1] = "h" /\ s[i + 2] = "r"

\* re.search("chr\d*.", file_name) finds a match: "chr" with a character after it
HasChrMatch(file_name) == \E i \in 1..Len(file_name) : ChrAt(file_name, i) /\ i + 3 <= Len(file_name)

\* _get_chr_num: the leftmost match of "chr\d*." without its last character.
\* \d* is greedy; "." takes the next character, or the last digit when the
\* digits run to the end of the name
GetChrNum(file_name) ==
    LET i == CHOOSE i \in 1..Len(file_name) :
                 /\ ChrAt(file_name, i) /\ i + 3 <= Len(file_name)
                 /\ \A j \in 1..(i - 1) : ~(ChrAt(file_name, j) /\ j + 3 <= Len(file_name))
        e == CHOOSE e \in (i + 2)..Len(file_name) :
                 /\ \A k \in (i + 3)..e : file_name[k] \in Digits
                 /\ (e < Len(file_name) => file_name[e + 1] \notin Digits)
        last == IF e < Len(file_name) THEN e + 1 ELSE Len(file_name)
    IN SubSeq(file_name, i, last - 1)

\* _filter_ibd_files: the files whose name holds "<chromosome>." for a
\* chromosome of the search space
FilterIbdFiles(chromosomes, ibd_files) ==
    SelectSeq(ibd_files, LAMBDA file :
        \E n \in 1..Len(chromosomes) : Contains(file.name, chromosomes[n] \o <<".">>))

\* list(d.keys())
KeyList(d) == [i \in 1..Len(d) |-> d[i][1]]

Coords == 0..MaxCoord
Segments == {s \in Coords \X Coords : s[1] <= s[2]}

InitOverlap ==
    /\ ov_found \in Segments
    /\ ov_ref \in Segments
    /\ ov_res = [fwd |-> FALSE, rev |-> FALSE]
    /\ ov_pc = "input"
    /\ fl_file = [name |-> <<>>, rows |-> <<>>] /\ fl_pair = <<>> /\ fl_space = <<>>
    /\ fl_obj = <<>> /\ fl_chunk = 0 /\ fl_dict = <<>> /\ fl_out = <<>> /\ fl_pc = "idle"
    /\ er_files = <<>> /\ er_workers = 0 /\ er_task = <<>> /\ er_line = <<>>
    /\ er_dict = <<>> /\ er_result = [kind |-> "none", pair |-> <<>>] /\ er_pc = "idle"
    /\ ibd_programs = <<>> /\ missing_dirs = {} /\ dir_files = <<>> /\ grids = <<>>
    /\ distant_pairs = <<>> /\ cpu_count = 0
    /\ prog_i = 0 /\ scan_kind = "none" /\ cur_pair = <<>> /\ grid_combinations = <<>>
    /\ search_space = <<>> /\ pool_files = <<>> /\ pool_space = <<>> /\ pool_workers = 0
    /\ task = <<>> /\ return_dict = <<>> /\ output_dict = <<>> /\ out_file = <<>>
    /\ pc = "idle"

\* the test run on a chunk holding the one row ov_found against ov_ref, and
\* with the two segments exchanged
ApplyOverlap ==
    /\ ov_pc = "input"
    /\ ov_pc' = "tested"
    /\ ov_res' = [fwd |-> LocFilteredChunk(<<ov_found>>, ov_ref[1], ov_ref[2]) # <<>>,
                  rev |-> LocFilteredChunk(<<ov_ref>>, ov_found[1], ov_found[2]) # <<>>]
    /\ UNCHANGED <<ov_found, ov_ref>>

\* ----------------------------------------------- one file, scanned and written
Chr1File == <<"c", "h", "r", "1", ".", "i", "b", "d", ".", "g", "z">>
Chr10File == <<"c", "h", "r", "1", "0", ".", "i", "b", "d", ".", "g", "z">>

\* segments of the rows and of the search space
FileSegs == {<<1, 2>>, <<2, 3>>, <<1, 4>>, <<5, 6>>}

\* the rows a file may hold: rows of the pair scanned in both column orders,
\* a row of another pair, and a row with an extra field
FileRows ==
    {Row("G1", "G2", seg) : seg \in FileSegs}
    \cup {Row("G2", "G1", seg) : seg \in {<<2, 3>>, <<5, 6>>}}
    \cup {Row("G1", "G3", <<1, 4>>), ExtraRow("G1", "G2", <<1, 4>>)}

SeqsUpTo(S, n) == UNION {[1..k -> S] : k \in 0..n}

InitFile ==
    /\ fl_file \in [name : {Chr1File, Chr10File}, rows : SeqsUpTo(FileRows, MaxRows)]
    /\ fl_pair = <<"G1", "G2">>
    \* <<>> is the scan without a search space (the reference pair's scan, or
    \* a later pair's when the reference pair shares nothing)
    /\ fl_space \in SeqsUpTo(FileSegs, MaxRefs)
    /\ fl_obj = NewPairSegments(fl_pair)
    /\ fl_chunk = 1
    /\ fl_dict = <<>>
    /\ fl_out = <<>>
    /\ fl_pc = "scan"
    /\ ov_found = <<0, 0>> /\ ov_ref = <<0, 0>>
    /\ ov_res = [fwd |-> FALSE, rev |-> FALSE] /\ ov_pc = "idle"
    /\ er_files = <<>> /\ er_workers = 0 /\ er_task = <<>> /\ er_line = <<>>
    /\ er_dict = <<>> /\ er_result = [kind |-> "none", pair |-> <<>>] /\ er_pc = "idle"
    /\ ibd_programs = <<>> /\ missing_dirs = {} /\ dir_files = <<>> /\ grids = <<>>
    /\ distant_pairs = <<>> /\ cpu_count = 0
    /\ prog_i = 0 /\ scan_kind = "none" /\ cur_pair = <<>> /\ grid_combinations = <<>>
    /\ search_space = <<>> /\ pool_files = <<>> /\ pool_space = <<>> /\ pool_workers = 0
    /\ task = <<>> /\ return_dict = <<>> /\ output_dict = <<>> /\ out_file = <<>>
    /\ pc = "idle"

FileChunks == Chunks(fl_file.rows)

\* the rows of chunk i are rows lo..hi of the file
ChunkLo(i) == (i - 1) * ChunkRows + 1
ChunkHi(i) == i * ChunkRows

\* the worker reads the next chunk and searches it
FileReadChunk ==
    /\ fl_pc = "scan"
    /\ fl_chunk <= Len(FileChunks)
    /\ ~ChunkRaises(fl_file.rows, ChunkLo(fl_chunk), ChunkHi(fl_chunk))
    /\ fl_obj' = SearchChunk(fl_obj, FileChunks[fl_chunk], fl_space, fl_space # <<>>)
    /\ fl_chunk' = fl_chunk + 1
    /\ UNCHANGED <<fl_file, fl_pair, fl_space, fl_dict, fl_out, fl_pc>>

\* read_csv raises: the exception ends the task, and apply_async keeps it in
\* an AsyncResult nobody reads
FileRaise ==
    /\ fl_pc = "scan"
    /\ \/ Len(fl_file.rows) = 0
       \/ /\ fl_chunk <= Len(FileChunks)
          /\ ChunkRaises(fl_file.rows, ChunkLo(fl_chunk), ChunkHi(fl_chunk))
    /\ fl_pc' = "raised"
    /\ UNCHANGED <<fl_file, fl_pair, fl_space, fl_obj, fl_chunk, fl_dict, fl_out>>

\* after the last chunk: return_dict[chr_num] = pair_obj
FileReturn ==
    /\ fl_pc = "scan"
    /\ Len(fl_file.rows) # 0
    /\ fl_chunk > Len(FileChunks)
    /\ fl_dict' = DictSet(fl_dict, GetChrNum(fl_file.name), fl_obj)
    /\ fl_pc' = "returned"
    /\ UNCHANGED <<fl_file, fl_pair, fl_space, fl_obj, fl_chunk, fl_out>>

\* the pool is joined and the coordinator writes what the map holds
FileWrite ==
    /\ fl_pc \in {"returned", "raised"}
    /\ fl_out' = Write(<< <<"hapibd", << <<fl_pair, fl_dict>> >> >> >>)
    /\ fl_pc' = "written"
    /\ UNCHANGED <<fl_file, fl_pair, fl_space, fl_obj, fl_chunk, fl_dict>>

NextOverlap == ApplyOverlap /\ UNCHANGED <<flVars, erVars, ssVars>>

SpecOverlap == InitOverlap /\ [][NextOverlap]_vars

NextFile ==
    \/ FileReadChunk /\ UNCHANGED <<ovVars, erVars, ssVars>>
    \/ FileRaise /\ UNCHANGED <<ovVars, erVars, ssVars>>
    \/ FileReturn /\ UNCHANGED <<ovVars, erVars, ssVars>>
    \/ FileWrite /\ UNCHANGED <<ovVars, erVars, ssVars>>

SpecFile == InitFile /\ [][NextFile]_vars

\* ------------------------------------------------------- the relatedness scan
\* the cohort read from the grid list
Cohort == {"G1", "G2", "G3"}

\* the score column is kept as the text read from the line
Score9 == <<"9">>
Score10 == <<"1", "0">>

\* lines of a relatedness file: data lines, a "#" comment line and the
\* "individual_1 ..." header line
ErsaRow(ind1, ind2, score) == [kind |-> "row", ind1 |-> ind1, ind2 |-> ind2, score |-> score]
ErsaLines ==
    {ErsaRow(p[1], p[2], sc) : p \in {<<"G1", "G2">>, <<"G2", "G1">>, <<"G1", "G3">>},
                                sc \in {Score9, Score10}}
    \cup {ErsaRow("G1", "X9", Score10),
          [kind |-> "#", ind1 |-> "", ind2 |-> "", score |-> <<>>],
          [kind |-> "individual_1", ind1 |-> "", ind2 |-> "", score |-> <<>>]}

ErsaFileIds == {1, 2}

\* Python's s > t on strings: by the first character that differs, a proper
\* prefix being the smaller
StrGreater(s, t) ==
    \/ \E i \in 1..Len(t) :
          /\ i <= Len(s)
          /\ \A k \in 1..(i - 1) : s[k] = t[k]
          /\ (CHOOSE n \in 0..9 : ToString(n) = s[i]) > (CHOOSE n \in 0..9 : ToString(n) = t[i])
    \/ Len(s) > Len(t) /\ \A k \in 1..Len(t) : s[k] = t[k]

\* the number a score text stands for
RECURSIVE NumValue(_)
NumValue(s) ==
    IF Len(s) = 0 THEN 0
    ELSE 10 * NumValue(SubSeq(s, 1, Len(s) - 1)) + (CHOOSE n \in 0..9 : ToString(n) = s[Len(s)])

\* the body of the line loop of _get_relatedness for one line
GetRelatednessLine(pairs_dict, line) ==
    IF line.kind = "row" /\ line.ind1 \in Cohort /\ line.ind2 \in Cohort
    THEN DictSet(pairs_dict, <<line.ind1, line.ind2>>, line.score)
    ELSE pairs_dict

\* max(d, key=d.get) over entries i..Len(d), best being the index kept so far:
\* a later key replaces it only when its value is greater
RECURSIVE MaxIndex(_, _, _)
MaxIndex(d, best, i) ==
    IF i > Len(d) THEN best
    ELSE MaxIndex(d, IF StrGreater(d[i][2], d[best][2]) THEN i ELSE best, i + 1)

\* _lowest_relatedness: max() of an empty dict raises ValueError
LowestRelatedness(relatedness_dict) ==
    IF Len(relatedness_dict) = 0
    THEN [kind |-> "ValueError", pair |-> <<>>]
    ELSE [kind |-> "pair", pair |-> relatedness_dict[MaxIndex(relatedness_dict, 1, 2)][1]]

InitErsa ==
    /\ \E k \in 0..MaxErsaLines :
         \E lines \in [1..k -> ErsaLines] :
           \E cut \in 0..k :
             er_files = <<SubSeq(lines, 1, cut), SubSeq(lines, cut + 1, k)>>
    /\ er_workers \in {1, 2}
    /\ er_task = [f \in ErsaFileIds |-> "queued"]
    /\ er_line = [f \in ErsaFileIds |-> 1]
    /\ er_dict = <<>>
    /\ er_result = [kind |-> "none", pair |-> <<>>]
    /\ er_pc = "pool"
    /\ ov_found = <<0, 0>> /\ ov_ref = <<0, 0>>
    /\ ov_res = [fwd |-> FALSE, rev |-> FALSE] /\ ov_pc = "idle"
    /\ fl_file = [name |-> <<>>, rows |-> <<>>] /\ fl_pair = <<>> /\ fl_space = <<>>
    /\ fl_obj = <<>> /\ fl_chunk = 0 /\ fl_dict = <<>> /\ fl_out = <<>> /\ fl_pc = "idle"
    /\ ibd_programs = <<>> /\ missing_dirs = {} /\ dir_files = <<>> /\ grids = <<>>
    /\ distant_pairs = <<>> /\ cpu_count = 0
    /\ prog_i = 0 /\ scan_kind = "none" /\ cur_pair = <<>> /\ grid_combinations = <<>>
    /\ search_space = <<>> /\ pool_files = <<>> /\ pool_space = <<>> /\ pool_workers = 0
    /\ task = <<>> /\ return_dict = <<>> /\ output_dict = <<>> /\ out_file = <<>>
    /\ pc = "idle"

\* a free pool process takes the oldest task still queued
ErsaTaskStart(f) ==
    /\ er_pc = "pool"
    /\ er_task[f] = "queued"
    /\ \A g \in ErsaFileIds : g < f => er_task[g] # "queued"
    /\ Cardinality({g \in ErsaFileIds : er_task[g] = "running"}) < er_workers
    /\ er_task' = [er_task EXCEPT ![f] = "running"]
    /\ UNCHANGED <<er_files, er_workers, er_line, er_dict, er_result, er_pc>>

\* the worker of file f handles its next line; the store into the manager's
\* dict is one call served by the manager process
ErsaReadLine(f) ==
    /\ er_pc = "pool"
    /\ er_task[f] = "running"
    /\ er_line[f] <= Len(er_files[f])
    /\ er_dict' = GetRelatednessLine(er_dict, er_files[f][er_line[f]])
    /\ er_line' = [er_line EXCEPT ![f] = @ + 1]
    /\ UNCHANGED <<er_files, er_workers, er_task, er_result, er_pc>>

ErsaTaskDone(f) ==
    /\ er_pc = "pool"
    /\ er_task[f] = "running"
    /\ er_line[f] > Len(er_files[f])
    /\ er_task' = [er_task EXCEPT ![f] = "done"]
    /\ UNCHANGED <<er_files, er_workers, er_line, er_dict, er_result, er_pc>>

\* pool.join() returns; determine_minimal_relatedness picks the pair
ErsaSelect ==
    /\ er_pc = "pool"
    /\ \A f \in ErsaFileIds : er_task[f] = "done"
    /\ er_result' = LowestRelatedness(er_dict)
    /\ er_pc' = "selected"
    /\ UNCHANGED <<er_files, er_workers, er_task, er_line, er_dict>>

NextErsa ==
    \/ \E f \in ErsaFileIds : ErsaTaskStart(f) /\ UNCHANGED <<ovVars, flVars, ssVars>>
    \/ \E f \in ErsaFileIds : ErsaReadLine(f) /\ UNCHANGED <<ovVars, flVars, ssVars>>
    \/ \E f \in ErsaFileIds : ErsaTaskDone(f) /\ UNCHANGED <<ovVars, flVars, ssVars>>
    \/ ErsaSelect /\ UNCHANGED <<ovVars, flVars, ssVars>>

SpecErsa == InitErsa /\ [][NextErsa]_vars

\* ----------------------------------------------------------- search_segments
\* a line of the grid file: its characters in order, an identifier counting
\* as one character
Whitespace == {" ", "\n"}

\* str.strip(): the whitespace at both ends removed
RECURSIVE Strip(_)
Strip(line) ==
    IF Len(line) = 0 THEN line
    ELSE IF Head(line) \in Whitespace THEN Strip(Tail(line))
    ELSE IF line[Len(line)] \in Whitespace THEN Strip(SubSeq(line, 1, Len(line) - 1))
    ELSE line

\* the text left of a line that held at most one identifier
LineText(chars) == IF Len(chars) = 0 THEN "" ELSE chars[1]

\* get_grids: line.strip() of every line of the file, in order
GetGrids(grid_file) == [i \in 1..Len(grid_file) |-> LineText(Strip(grid_file[i]))]

\* grid files: one identifier per line; with a blank line in the middle; with
\* an identifier repeated on the last line
GridFile == <<<<"G1", "\n">>, <<"G2", "\n">>, <<"G3", "\n">>>>
GridFileBlankLine == <<<<"G1", "\n">>, <<"G2", "\n">>, <<"\n">>, <<"G3", "\n">>>>
GridFileRepeat == <<<<"G1", "\n">>, <<"G2", " ", "\n">>, <<"G3", "\n">>, <<"G1">>>>

\* the cohort list handed to search_segments
Grids == GetGrids(GridFile)

\* str.lower() on the program names used here
Lower(program) == IF program = "HapIBD" THEN "hapibd" ELSE program

\* check_ibd_files raises NonsupportedIBDProgram
CheckIbdFilesRaises(ibd_program) ==
    \E i \in 1..Len(ibd_program) : Lower(ibd_program[i]) \notin {"hapibd", "ilash"}

\* check_ibd_files: the names in lower case
CheckIbdFiles(ibd_program) == [i \in 1..Len(ibd_program) |-> Lower(ibd_program[i])]

\* the program lists asked for, each with the program directories that do
\* not exist on the machine and the way search_segments is reached: behind
\* the callback of the command line option, or called with the list as it is
ProgramSetups ==
    {[programs |-> <<"HapIBD">>, missing |-> {}, entry |-> "callback"],
     [programs |-> <<"hapibd", "ilash">>, missing |-> {"ilash"}, entry |-> "callback"],
     [programs |-> <<"hapibd", "beagle">>, missing |-> {}, entry |-> "callback"],
     [programs |-> <<"ilash", "hapibd">>, missing |-> {}, entry |-> "loop"],
     [programs |-> <<"hapibd", "beagle">>, missing |-> {}, entry |-> "loop"]}

\* output_dict = {program: {} for program in ibd_programs}
NewOutputDict(programs) == [i \in 1..Len(programs) |-> <<programs[i], <<>>>>]

\* _get_ibd_directory: the directory of a supported program
HapibdDirectory ==
    <<"/", "d", "a", "t", "a", "1", "0", "0", "t", "1", "/", "s", "h", "a", "r", "e", "/", "B", "i", "o", "V", "U", "/", "s", "h", "a", "p", "e", "i", "t", "4", "/", "E", "u", "r", "_", "7", "0", "k", "/", "h", "a", "p", "i", "b", "d", "/">>
IlashDirectory ==
    <<"/", "d", "a", "t", "a", "1", "0", "0", "t", "1", "/", "s", "h", "a", "r", "e", "/", "B", "i", "o", "V", "U", "/", "s", "h", "a", "p", "e", "i", "t", "4", "/", "E", "u", "r", "_", "7", "0", "k", "/", "i", "L", "a", "s", "h", "/", "m", "i", "n", "1", "0", "0", "g", "m", "a", "p", "/">>

SupportedPrograms == {"hapibd", "ilash"}

\* the end of a file name that the glob pattern of the program asks for
\* ("*.match.gz" for ilash, "*ibd.gz" otherwise)
GlobSuffix(ibd_program) ==
    IF ibd_program = "ilash"
    THEN <<"m", "a", "t", "c", "h", ".", "g", "z">>
    ELSE <<"i", "b", "d", ".", "g", "z">>

\* the start of the names found in a program's directory
Chr1Stem == <<"c", "h", "r", "1", ".">>
Chr10Stem == <<"c", "h", "r", "1", "0", ".">>
Chr2PhasedStem == <<"c", "h", "r", "2", "_", "p", ".">>

\* rows of the reference pair, of another pair inside the reference pair's
\* segment, and a row with one field too many
RefRow == Row("G1", "G3", <<1, 4>>)
PairRow == Row("G2", "G1", <<2, 3>>)
BadRow == ExtraRow("G1", "G2", <<2, 3>>)

\* what a file of the directory may hold
ScanContents == {<<>>, <<RefRow>>, <<PairRow>>, <<RefRow, PairRow>>, <<RefRow, BadRow>>}

\* the directory listings: two files, one per chromosome
DirListings ==
    {<<[stem |-> st[1], rows |-> r1], [stem |-> st[2], rows |-> r2]>> :
        st \in {<<Chr1Stem, Chr10Stem>>, <<Chr10Stem, Chr2PhasedStem>>, <<Chr2PhasedStem, Chr1Stem>>},
        r1 \in ScanContents, r2 \in ScanContents}

\* _get_ibd_files: os.path.join(ibd_directory, file) for every file the glob finds
GetIbdFiles(ibd_program) ==
    [i \in 1..Len(dir_files) |->
        [name |-> (IF ibd_program = "ilash" THEN IlashDirectory ELSE HapibdDirectory)
                      \o dir_files[i].stem \o GlobSuffix(ibd_program),
         rows |-> dir_files[i].rows]]

\* itertools.combinations(grids, 2): pairs of positions i < j, in order
RECURSIVE CombinationsFrom(_, _, _)
CombinationsFrom(grid_list, i, j) ==
    IF i >= Len(grid_list) THEN <<>>
    ELSE IF j > Len(grid_list) THEN CombinationsFrom(grid_list, i + 1, i + 2)
    ELSE <<<<grid_list[i], grid_list[j]>>>> \o CombinationsFrom(grid_list, i, j + 1)

\* grid_combinations: every combination but the reference pair in either order
GridCombinations(grid_list, distant) ==
    SelectSeq(CombinationsFrom(grid_list, 1, 2),
              LAMBDA pair : pair # distant /\ pair # <<distant[2], distant[1]>>)

\* the search_space argument of _parallelize: None, or the dict
NoSpace == [given |-> FALSE, dict |-> <<>>]
Space(d) == [given |-> TRUE, dict |-> d]

\* the files _parallelize hands to the pool
DispatchList(ibd_files, space) ==
    IF ~space.given THEN ibd_files ELSE FilterIbdFiles(KeyList(space.dict), ibd_files)

\* workers: os.cpu_count() if it is less than len(ibd_files), else len(ibd_files)
Workers(ibd_files) == IF cpu_count < Len(ibd_files) THEN cpu_count ELSE Len(ibd_files)

\* `if search_space:` in the worker
UseSpace(space) == space.given /\ Len(space.dict) # 0

\* the task raises: no "chr" in the name (match is None), a file pandas
\* cannot parse, or no entry for the chromosome in the search space
TaskRaises(file, space) ==
    IF ~HasChrMatch(file.name) THEN TRUE
    ELSE IF ChunkRaises(file.rows, 1, Len(file.rows)) THEN TRUE
    ELSE UseSpace(space) /\ GetChrNum(file.name) \notin DictKeys(space.dict)

\* the Pair_Segments the task stores under the chromosome of its file
TaskResult(file, pair, space) ==
    SearchFile(file.rows, pair,
               IF UseSpace(space)
               THEN DictGet(space.dict, GetChrNum(file.name), NewPairSegments(pair)).segments
               ELSE <<>>,
               UseSpace(space))

\* return_dict[chr_num] = pair_obj on the manager's dict: one call, served by
\* the manager process
StoreEntry(d, chr_num, pair_obj) == DictSet(d, chr_num, pair_obj)

\* the listings scanned for the cohorts read from the other grid files
CohortListings ==
    {l \in DirListings :
        /\ l[1].stem = Chr1Stem /\ l[1].rows = <<RefRow, PairRow>>
        /\ l[2].rows \in {<<RefRow>>, <<PairRow>>}}

Init ==
    /\ \E setup \in ProgramSetups :
          /\ ibd_programs = setup.programs
          /\ missing_dirs = setup.missing
          /\ pc = setup.entry
          /\ output_dict = IF setup.entry = "loop" THEN NewOutputDict(setup.programs) ELSE <<>>
    /\ \E cohort \in {"one per line", "others"} :
          IF cohort = "one per line"
          THEN grids = Grids /\ dir_files \in DirListings /\ cpu_count \in {1, 2}
          ELSE /\ grids \in {GetGrids(GridFileBlankLine), GetGrids(GridFileRepeat)}
               /\ dir_files \in CohortListings
               /\ cpu_count = 2
    /\ distant_pairs \in {<<"G1", "G3">>, <<"G3", "G1">>}
    /\ prog_i = 1 /\ scan_kind = "none" /\ cur_pair = <<>> /\ grid_combinations = <<>>
    /\ search_space = <<>>
    /\ pool_files = <<>> /\ pool_space = NoSpace /\ pool_workers = 0
    /\ task = <<>> /\ return_dict = <<>>
    /\ out_file = <<>>
    /\ ov_found = <<0, 0>> /\ ov_ref = <<0, 0>>
    /\ ov_res = [fwd |-> FALSE, rev |-> FALSE] /\ ov_pc = "idle"
    /\ fl_file = [name |-> <<>>, rows |-> <<>>] /\ fl_pair = <<>> /\ fl_space = <<>>
    /\ fl_obj = <<>> /\ fl_chunk = 0 /\ fl_dict = <<>> /\ fl_out = <<>> /\ fl_pc = "idle"
    /\ er_files = <<>> /\ er_workers = 0 /\ er_task = <<>> /\ er_line = <<>>
    /\ er_dict = <<>> /\ er_result = [kind |-> "none", pair |-> <<>>] /\ er_pc = "idle"

\* _parallelize up to pool.close(): a fresh manager dict and one task per file
\* of the dispatch list
StartScan(pair, ibd_files, space) ==
    /\ cur_pair' = pair
    /\ pool_files' = DispatchList(ibd_files, space)
    /\ pool_space' = space
    /\ pool_workers' = Workers(ibd_files)
    /\ task' = [i \in 1..Len(DispatchList(ibd_files, space)) |-> "queued"]
    /\ return_dict' = <<>>

\* typer runs the callback of --ibd_files before the command body: a name
\* that is neither hapibd nor ilash raises NonsupportedIBDProgram
CallbackReject ==
    /\ pc = "callback"
    /\ CheckIbdFilesRaises(ibd_programs)
    /\ pc' = "rejected"
    /\ UNCHANGED <<inVars, loopVars, poolVars, output_dict, out_file>>

\* the callback returns the names in lower case and search_segments starts
CallbackAccept ==
    /\ pc = "callback"
    /\ ~CheckIbdFilesRaises(ibd_programs)
    /\ ibd_programs' = CheckIbdFiles(ibd_programs)
    /\ output_dict' = NewOutputDict(CheckIbdFiles(ibd_programs))
    /\ pc' = "loop"
    /\ UNCHANGED <<missing_dirs, dir_files, grids, distant_pairs, cpu_count,
                   loopVars, poolVars, out_file>>

\* loop head with a supported program whose directory does not exist:
\* os.chdir in _get_ibd_files raises FileNotFoundError, which nothing catches
ProgramDirectoryMissing ==
    /\ pc = "loop"
    /\ prog_i <= Len(ibd_programs)
    /\ ibd_programs[prog_i] \in SupportedPrograms
    /\ ibd_programs[prog_i] \in missing_dirs
    /\ pc' = "FileNotFoundError"
    /\ UNCHANGED <<inVars, loopVars, poolVars, output_dict, out_file>>

\* loop head with a program _get_ibd_directory does not know: sys.exit(1)
ProgramUnsupported ==
    /\ pc = "loop"
    /\ prog_i <= Len(ibd_programs)
    /\ ibd_programs[prog_i] \notin SupportedPrograms
    /\ pc' = "exit"
    /\ UNCHANGED <<inVars, loopVars, poolVars, output_dict, out_file>>

\* loop head: the files of the program, the pairs to scan, and the scan of
\* the reference pair without a search space
ProgramStart ==
    /\ pc = "loop"
    /\ prog_i <= Len(ibd_programs)
    /\ ibd_programs[prog_i] \in SupportedPrograms
    /\ ibd_programs[prog_i] \notin missing_dirs
    /\ grid_combinations' = GridCombinations(grids, distant_pairs)
    /\ scan_kind' = "reference"
    /\ StartScan(distant_pairs, GetIbdFiles(ibd_programs[prog_i]), NoSpace)
    /\ pc' = "pool"
    /\ UNCHANGED <<inVars, prog_i, search_space, output_dict, out_file>>

\* a free pool process takes the oldest task still queued
TaskStart(i) ==
    /\ pc = "pool"
    /\ task[i] = "queued"
    /\ \A j \in 1..(i - 1) : task[j] # "queued"
    /\ Cardinality({j \in 1..Len(task) : task[j] = "running"}) < pool_workers
    /\ task' = [task EXCEPT ![i] = "running"]
    /\ UNCHANGED <<inVars, loopVars, pool_files, pool_space, pool_workers, return_dict,
                   output_dict, out_file>>
    /\ UNCHANGED pc

\* _search_file runs to its end and stores its Pair_Segments
TaskFinish(i) ==
    /\ pc = "pool"
    /\ task[i] = "running"
    /\ ~TaskRaises(pool_files[i], pool_space)
    /\ return_dict' = StoreEntry(return_dict, GetChrNum(pool_files[i].name),
                                TaskResult(pool_files[i], cur_pair, pool_space))
    /\ task' = [task EXCEPT ![i] = "done"]
    /\ UNCHANGED <<inVars, loopVars, pool_files, pool_space, pool_workers,
                   output_dict, out_file, pc>>

\* _search_file raises: apply_async keeps the exception in an AsyncResult
\* that nobody reads, and nothing is stored
TaskRaise(i) ==
    /\ pc = "pool"
    /\ task[i] = "running"
    /\ TaskRaises(pool_files[i], pool_space)
    /\ task' = [task EXCEPT ![i] = "raised"]
    /\ UNCHANGED <<inVars, loopVars, pool_files, pool_space, pool_workers, return_dict,
                   output_dict, out_file, pc>>

\* A mutant: pool.close() without pool.join(), which returns as soon as every
\* task has been handed to a process
PoolClosedOnly == \A i \in 1..Len(task) : task[i] # "queued"

\* pool.close(); pool.join(): every task has ended, in a return or an exception
PoolDrained == \A i \in 1..Len(task) : task[i] \in {"done", "raised"}

\* output_dict[program][pair_info] = segment_dicts
Recorded(out, program_i, pair, segment_dicts) ==
    [out EXCEPT ![program_i][2] = DictSet(@, pair, segment_dicts)]

\* the search space the loop over grid_combinations works with
SpaceAfter(segment_dicts) ==
    IF scan_kind = "reference" THEN FindSearchSpace(segment_dicts) ELSE search_space

\* pool.join() returns and a pair is left: its scan starts, with the search
\* space unless that is empty
ScanReturnNextPair ==
    /\ pc = "pool"
    /\ PoolDrained
    /\ Len(grid_combinations) # 0
    /\ output_dict' = Recorded(output_dict, prog_i, cur_pair, return_dict)
    /\ search_space' = SpaceAfter(return_dict)
    /\ scan_kind' = "pair"
    /\ grid_combinations' = Tail(grid_combinations)
    /\ StartScan(Head(grid_combinations), GetIbdFiles(ibd_programs[prog_i]),
                 IF Len(SpaceAfter(return_dict)) # 0 THEN Space(SpaceAfter(return_dict)) ELSE NoSpace)
    /\ UNCHANGED <<inVars, prog_i, out_file, pc>>

\* pool.join() returns and no pair is left: the output file is written and
\* the loop goes to the next program
ScanReturnWrite ==
    /\ pc = "pool"
    /\ PoolDrained
    /\ Len(grid_combinations) = 0
    /\ output_dict' = Recorded(output_dict, prog_i, cur_pair, return_dict)
    /\ search_space' = SpaceAfter(return_dict)
    /\ out_file' = Write(Recorded(output_dict, prog_i, cur_pair, return_dict))
    /\ prog_i' = prog_i + 1
    /\ scan_kind' = "none"
    /\ pc' = "loop"
    /\ UNCHANGED <<inVars, cur_pair, grid_combinations, poolVars>>

\* the loop over the programs ends
Finish ==
    /\ pc = "loop"
    /\ prog_i > Len(ibd_programs)
    /\ pc' = "done"
    /\ UNCHANGED <<inVars, loopVars, poolVars, output_dict, out_file>>

Next ==
    \/ CallbackReject /\ UNCHANGED <<ovVars, flVars, erVars>>
    \/ CallbackAccept /\ UNCHANGED <<ovVars, flVars, erVars>>
    \/ ProgramDirectoryMissing /\ UNCHANGED <<ovVars, flVars, erVars>>
    \/ ProgramUnsupported /\ UNCHANGED <<ovVars, flVars, erVars>>
    \/ ProgramStart /\ UNCHANGED <<ovVars, flVars, erVars>>
    \/ \E i \in 1..Len(task) : TaskStart(i) /\ UNCHANGED <<ovVars, flVars, erVars>>
    \/ \E i \in 1..Len(task) : TaskFinish(i) /\ UNCHANGED <<ovVars, flVars, erVars>>
    \/ \E i \in 1..Len(task) : TaskRaise(i) /\ UNCHANGED <<ovVars, flVars, erVars>>
    \/ ScanReturnNextPair /\ UNCHANGED <<ovVars, flVars, erVars>>
    \/ ScanReturnWrite /\ UNCHANGED <<ovVars, flVars, erVars>>
    \/ Finish /\ UNCHANGED <<ovVars, flVars, erVars>>

Spec == Init /\ [][Next]_vars

\* ---------------------------------------------- the relatedness scan: claims
\* C1: the pair chosen from a non-empty map has a score no recorded score
\* exceeds as a number
C1_MaxNumericScore ==
    (er_pc = "selected" /\ Len(er_dict) # 0) =>
        /\ er_result.kind = "pair"
        /\ \A i \in 1..Len(er_dict) :
             NumValue(er_dict[i][2]) <= NumValue(DictGet(er_dict, er_result.pair, <<>>))

\* C2: the map never holds two entries for the same unordered pair
C2_OneEntryPerUnorderedPair ==
    \A i, j \in 1..Len(er_dict) :
        {er_dict[i][1][1], er_dict[i][1][2]} = {er_dict[j][1][1], er_dict[j][1][2]} => i = j

\* C3: an empty map ends the selection in EmptyRelatednessResult
C3_EmptyRelatednessResult ==
    (er_pc = "selected" /\ Len(er_dict) = 0) => er_result.kind = "EmptyRelatednessResult"

\* the map after the lines from position i on have been read into d, one
\* after the other
RECURSIVE ReadLines(_, _, _)
ReadLines(d, lines, i) ==
    IF i > Len(lines) THEN d
    ELSE ReadLines(GetRelatednessLine(d, lines[i]), lines, i + 1)

\* the map of the run in which the files are read one after the other
OneAfterTheOther == ReadLines(<<>>, er_files[1] \o er_files[2], 1)

\* the entries of a map, without their order
Entries(d) == {d[i] : i \in 1..Len(d)}

\* C16: the map after the pool has drained and the pair selected from it are
\* those of the run that reads the files one after the other, whatever the
\* interleaving of the workers was
C16_SameUnderEveryInterleaving ==
    er_pc = "selected" =>
        /\ Entries(er_dict) = Entries(OneAfterTheOther)
        /\ er_result = LowestRelatedness(OneAfterTheOther)

\* every pair a worker stored is in the map after the pool has drained: no
\* store is lost to a store of the other worker
NoInsertionLost ==
    er_pc = "selected" => DictKeys(er_dict) = DictKeys(OneAfterTheOther)

\* ------------------------------------------------------ the overlap test: claims
\* the four relations of a found segment f to a reference segment r, and a gap
SegContains(f, r) == f[1] <= r[1] /\ r[2] <= f[2]
SegContainedBy(f, r) == r[1] <= f[1] /\ f[2] <= r[2]
SegOverlapsLeft(f, r) == f[1] < r[1] /\ r[1] < f[2] /\ f[2] < r[2]
SegOverlapsRight(f, r) == r[1] < f[1] /\ f[1] < r[2] /\ r[2] < f[2]
SegGap(f, r) == f[2] < r[1] \/ f[1] > r[2]

\* C5: the test keeps a found segment that contains, is contained by, overlaps
\* the left edge of or overlaps the right edge of the reference segment, and
\* drops one that has a coordinate gap to it
C5_OverlapRelations ==
    ov_pc = "tested" =>
        /\ (\/ SegContains(ov_found, ov_ref)
            \/ SegContainedBy(ov_found, ov_ref)
            \/ SegOverlapsLeft(ov_found, ov_ref)
            \/ SegOverlapsRight(ov_found, ov_ref)) => ov_res.fwd
        /\ SegGap(ov_found, ov_ref) => ~ov_res.fwd

\* a found segment over the left edge of the reference segment was tested
C5_Witness ==
    ov_pc = "tested" /\ SegOverlapsLeft(ov_found, ov_ref) /\ ov_res.fwd

\* C6: the test gives the same answer with the two segments exchanged
C6_OverlapSymmetric ==
    ov_pc = "tested" => ov_res.fwd = ov_res.rev

\* ------------------------------------------------------------ the writer: claims
\* the data lines written for the chromosome of the file scanned
RowsOfChromo(chromo) ==
    SelectSeq(fl_out, LAMBDA r :
        /\ r.pair_1 = fl_pair[1] /\ r.pair_2 = fl_pair[2]
        /\ r.ibd_program = "hapibd" /\ r.chromosome = GetChr(chromo))

\* C7: a chromosome record with n >= 1 segments gives exactly n data lines
C7_OneRowPerSegment ==
    fl_pc = "written" =>
        \A i \in 1..Len(fl_dict) :
            Len(fl_dict[i][2].segments) >= 1 =>
                Len(RowsOfChromo(fl_dict[i][1])) = Len(fl_dict[i][2].segments)

\* C8: a chromosome record with no segment gives exactly one data line, with
\* no segment and overlap 0
C8_SentinelRow ==
    fl_pc = "written" =>
        \A i \in 1..Len(fl_dict) :
            Len(fl_dict[i][2].segments) = 0 =>
                /\ Len(RowsOfChromo(fl_dict[i][1])) = 1
                /\ RowsOfChromo(fl_dict[i][1])[1].segment = <<>>
                /\ RowsOfChromo(fl_dict[i][1])[1].overlaps = 0

\* --------------------------------------------------- one file's scan: claims
\* the rows of the pair scanned that have the width of the first line
WellFormedPairRows ==
    SelectSeq(FilterChunk(fl_file.rows, NewPairSegments(fl_pair)), LAMBDA r : r.cols = "ok")

\* the worker has run to its end and stored its record
WorkerFinished == fl_pc \in {"returned", "written"} /\ Len(fl_dict) # 0

\* the worker has stopped, by returning or by an exception
WorkerOver == fl_pc \in {"returned", "raised", "written"}

\* C11: a file with a row of too many fields still gets its entry in the scan
\* result, and in a scan without search space that entry holds the segment of
\* every well-formed row of the pair, before and after the long row
C11_MalformedRowSkipped ==
    (WorkerOver /\ \E i \in 1..Len(fl_file.rows) : fl_file.rows[i].cols = "extra") =>
        /\ GetChrNum(fl_file.name) \in DictKeys(fl_dict)
        /\ fl_space = <<>> =>
               \A i \in 1..Len(WellFormedPairRows) :
                   \E k \in 1..Len(DictGet(fl_dict, GetChrNum(fl_file.name), fl_obj).segments) :
                       DictGet(fl_dict, GetChrNum(fl_file.name), fl_obj).segments[k]
                           = <<WellFormedPairRows[i].start, WellFormedPairRows[i].end>>

\* the rows of the file in the chunks read so far
RowsRead ==
    SubSeq(fl_file.rows, 1,
           IF (fl_chunk - 1) * ChunkRows < Len(fl_file.rows)
           THEN (fl_chunk - 1) * ChunkRows ELSE Len(fl_file.rows))

\* a row of the pair among rows passes the test against the reference segment
SomePairRowIntersects(rows, ref) ==
    \E i \in 1..Len(FilterChunk(rows, NewPairSegments(fl_pair))) :
        Intersects(FilterChunk(rows, NewPairSegments(fl_pair))[i].start,
                   FilterChunk(rows, NewPairSegments(fl_pair))[i].end, ref[1], ref[2])

\* C13: in a scan with a search space, after every chunk the flag of a
\* reference segment is 1 exactly when a row of the pair in a chunk read so far
\* intersects it, so a flag that is 1 stays 1; the record stored at the end
\* has flag 1 exactly when a row of the pair in the file intersects it
C13_FlagIffSomeChunkIntersects ==
    (fl_pc # "idle" /\ fl_space # <<>>) =>
        \A k \in 1..Len(fl_space) :
            /\ DictGet(fl_obj.overlap_others, fl_space[k], 0) = 1
                   <=> SomePairRowIntersects(RowsRead, fl_space[k])
            /\ WorkerFinished =>
                   (DictGet(DictGet(fl_dict, GetChrNum(fl_file.name), fl_obj).overlap_others,
                            fl_space[k], 0) = 1
                       <=> SomePairRowIntersects(fl_file.rows, fl_space[k]))

\* a file of two chunks has been scanned whose first chunk has no row that
\* intersects a reference segment and whose second chunk has one
C13_Witness ==
    /\ fl_pc = "returned" /\ fl_space # <<>>
    /\ Len(FileChunks) = 2
    /\ \E k \in 1..Len(fl_space) :
          /\ ~SomePairRowIntersects(FileChunks[1], fl_space[k])
          /\ SomePairRowIntersects(FileChunks[2], fl_space[k])
          /\ DictGet(fl_obj.overlap_others, fl_space[k], 0) = 1

\* the record the worker stored for the chromosome of its file
StoredRecord == DictGet(fl_dict, GetChrNum(fl_file.name), fl_obj)

\* the rows of the pair in the whole file
PairRows == FilterChunk(fl_file.rows, NewPairSegments(fl_pair))

\* how often x occurs in the sequence seq
Count(seq, x) == Cardinality({i \in 1..Len(seq) : seq[i] = x})

\* C14: after a scan with a search space, the segment list of the record holds
\* every row of the pair that intersects a reference segment, whatever chunk
\* the row is in
C14_AllIntersectingRowsRecorded ==
    (WorkerFinished /\ fl_space # <<>>) =>
        \A i \in 1..Len(PairRows) :
            (\E k \in 1..Len(fl_space) :
                 Intersects(PairRows[i].start, PairRows[i].end, fl_space[k][1], fl_space[k][2]))
            => Count(StoredRecord.segments, <<PairRows[i].start, PairRows[i].end>>) >= 1

\* C18: after a scan with a search space, a segment is in the segment list at
\* most as often as the file has rows of the pair with that segment
C18_OneEntryPerRow ==
    (WorkerFinished /\ fl_space # <<>>) =>
        \A seg \in FileSegs :
            Count(StoredRecord.segments, seg) <= Count(ZipStartEnd(PairRows), seg)

\* C19: a data line with a segment and overlaps = 1 names a reference segment
\* that its own segment shares a position with
C19_OverlapRowIntersects ==
    fl_pc = "written" =>
        \A i \in 1..Len(fl_out) :
            (fl_out[i].segment # <<>> /\ fl_out[i].overlaps = 1) =>
                /\ fl_out[i].segment[1] <= fl_out[i].overlapping_segment[3]
                /\ fl_out[i].overlapping_segment[2] <= fl_out[i].segment[2]

\* ------------------------------------------------------- search_segments: claims
\* the reference pair's chromosome map of the program in progress
ReferenceMap == DictGet(output_dict[prog_i][2], distant_pairs, <<>>)

\* C4: the search space holds exactly the chromosomes of the input map whose
\* segment list is not empty, each with its input record
C4_SearchSpaceKeys ==
    (pc = "pool" /\ scan_kind = "pair") =>
        /\ IsDict(search_space)
        /\ DictKeys(search_space) \subseteq DictKeys(ReferenceMap)
        /\ \A i \in 1..Len(search_space) : Len(search_space[i][2].segments) # 0
        /\ \A i \in 1..Len(ReferenceMap) :
             Len(ReferenceMap[i][2].segments) # 0 =>
                 \E j \in 1..Len(search_space) : search_space[j] = ReferenceMap[i]
        /\ \A j \in 1..Len(search_space) :
             \E i \in 1..Len(ReferenceMap) : search_space[j] = ReferenceMap[i]

\* a search space built from a map of two chromosomes, one kept and one dropped
C4_Witness ==
    /\ pc = "pool" /\ scan_kind = "pair"
    /\ Len(ReferenceMap) = 2 /\ Len(search_space) = 1

\* C12: when the run halts on a configuration error (a program name that is
\* not supported, or a program directory that does not exist), no pool of a
\* scan has run before: no pair of any program is on record
C12_ConfigErrorBeforePools ==
    pc \in {"rejected", "exit", "FileNotFoundError"} =>
        \A p \in 1..Len(output_dict) : Len(output_dict[p][2]) = 0

\* no task of the scan in progress is waiting or running
AllTasksEnded == \A i \in 1..Len(task) : task[i] \notin {"queued", "running"}

\* C15: a scan (a new pair, or the reference pair of the next program) starts
\* only when every task of the scan before it has ended; the search space
\* changes only when the reference pair's scan has drained; the loop moves to
\* the next program only when the last scan has drained
C15_PhasesNeverOverlap ==
    [][/\ (cur_pair' # cur_pair) => AllTasksEnded
       /\ (search_space' # search_space) => (scan_kind = "reference" /\ AllTasksEnded)
       /\ (prog_i' # prog_i) => AllTasksEnded
       /\ (\E i \in 1..Len(task') : task'[i] \in {"queued", "running"}) => pc' = "pool"]_vars

\* a task of the scan of a later pair is running, with the search space built
\* from the reference pair's scan
C15_Witness ==
    /\ pc = "pool" /\ scan_kind = "pair" /\ Len(search_space) # 0
    /\ cur_pair # distant_pairs
    /\ \E i \in 1..Len(task) : task[i] = "running"

\* the identifiers of the cohort: the lines of the grid file that are not empty
CohortIds == {grids[i] : i \in {j \in 1..Len(grids) : grids[j] # ""}}

\* the pairs on record for program p besides the reference pair, as scanned
ScannedPairs(p) == {k \in DictKeys(output_dict[p][2]) : k # distant_pairs}

\* C17: for every program whose scans are over, each pair scanned after the
\* reference pair has two different members of the cohort, the reference pair
\* is not among them in either order, and every other pair of different
\* members of the cohort was scanned, in one order only
C17_PairsOfCohort ==
    \A p \in 1..Len(output_dict) :
        p < prog_i =>
            /\ \A k \in ScannedPairs(p) :
                   k[1] # k[2] /\ k[1] \in CohortIds /\ k[2] \in CohortIds
            /\ <<distant_pairs[2], distant_pairs[1]>> \notin ScannedPairs(p)
            /\ \A a, b \in CohortIds :
                   (a # b /\ {a, b} # {distant_pairs[1], distant_pairs[2]}) =>
                       Cardinality({k \in ScannedPairs(p) : {k[1], k[2]} = {a, b}}) = 1

\* C9: once the pool of a scan has drained, the map holds exactly one entry
\* per file dispatched, under the chromosome of the file
C9_OneEntryPerFile ==
    (pc = "pool" /\ PoolDrained) =>
        /\ Len(return_dict) = Len(pool_files)
        /\ \A i \in 1..Len(pool_files) :
             GetChrNum(pool_files[i].name) \in DictKeys(return_dict)

\* the entries of the map are those of the tasks that ran to their end: no
\* store is lost to another task's store
StoredByFinishedTasks ==
    pc = "pool" =>
        /\ IsDict(return_dict)
        /\ DictKeys(return_dict) =
               {GetChrNum(pool_files[i].name) : i \in {j \in 1..Len(task) : task[j] = "done"}}

\* C10: with a search space, a file of the program is dispatched if and only
\* if the chromosome _get_chr_num reads from its name is a key of the space
C10_DispatchedIffKey ==
    (pc = "pool" /\ pool_space.given) =>
        \A i \in 1..Len(dir_files) :
            LET file == GetIbdFiles(ibd_programs[prog_i])[i]
            IN (\E j \in 1..Len(pool_files) : pool_files[j] = file)
                   <=> GetChrNum(file.name) \in DictKeys(pool_space.dict)

\* a file is never dispatched for a chromosome whose name merely starts with
\* a key of the search space (chr10 for the key chr1)
NoPrefixDispatch ==
    (pc = "pool" /\ pool_space.given) =>
        \A j \in 1..Len(pool_files) :
            \E k \in DictKeys(pool_space.dict) :
                Contains(pool_files[j].name, k \o <<".">>)

====
